---- MODULE Spec2Model ----
(***************************************************************************)
(* Model of app/services/migration_service.py: the two migration passes of *)
(* MigrationService (fix_user_admin_fields, ensure_workspace_admins) and   *)
(* run_migrations, over a document database with the collections "users"   *)
(* and "workspaces".                                                       *)
(***************************************************************************)
EXTENDS Integers, Sequences, FiniteSets, TLC

\* ---- bounds ----
MaxUsers == 3
MaxWorkspaces == 2

\* An id that belongs to no user document (a deleted user).
DeletedUser == 0

\* The three shapes of the is_admin field of a user document.
Absent == "absent"
True == "true"
False == "false"

VARIABLES
  db_users,            \* collection users: _id -> document
  db_workspaces,       \* collection workspaces: _id -> document
  now,                 \* datetime.utcnow()
  call,                \* the top-level call in progress (or the last one)
  pc,                  \* position of the single thread of control
  result,              \* how the last top-level call ended
  pass,                \* the pass in progress (or the last one)
  outcome,             \* "running", "ok" (returned) or "failed" (raised)
  users0,              \* db_users when the pass started
  ws0,                 \* db_workspaces when the pass started
  writes,              \* ids given to update_one by the pass, in order
  prev,                \* name, outcome, users0 and writes of the pass before
  users_without_admin, \* local of fix_user_admin_fields
  existing_admins,     \* local of fix_user_admin_fields
  is_admin,            \* local of fix_user_admin_fields
  workspaces,          \* local of ensure_workspace_admins
  admin_id,            \* local of ensure_workspace_admins
  updated_count,       \* local of ensure_workspace_admins
  idx                  \* position of the for loop of the pass

dbvars == <<db_users, db_workspaces, now>>
ctlvars == <<call, pc, result>>
histvars == <<pass, outcome, users0, ws0, writes, prev>>
fixlocals == <<users_without_admin, existing_admins, is_admin>>
enslocals == <<workspaces, admin_id, updated_count>>
vars == <<dbvars, ctlvars, histvars, fixlocals, enslocals, idx>>

\* ---- the database driver ----

\* to_list(None) of a cursor: the matching ids in some order
Orders(S) ==
  {s \in [1..Cardinality(S) -> S] : \A a, b \in DOMAIN s : s[a] = s[b] => a = b}

\* faulty variant: the filter {"is_admin": {"$ne": True}}
FindUsersWithoutAdmin_NotTrue(us) == {u \in DOMAIN us : us[u].is_admin # True}

\* faulty variant: the filter {}
FindUsersWithoutAdmin_All(us) == DOMAIN us

\* db.users.find({"is_admin": {"$exists": False}})
FindUsersWithoutAdmin(us) == {u \in DOMAIN us : us[u].is_admin = Absent}

\* faulty variant: the count of existing admins is skipped
CountAdmins_Skipped(us) == 0

\* db.users.count_documents({"is_admin": True})
CountAdmins(us) == Cardinality({u \in DOMAIN us : us[u].is_admin = True})

\* db.users.find_one({"is_admin": True}): the candidates
FindAdmins(us) == {u \in DOMAIN us : us[u].is_admin = True}

\* faulty variant: the reference is only tested for being set
AdminExists_NotNull(us, id) == id # DeletedUser

\* faulty variant: the referenced user must also be an administrator
AdminExists_IsAdmin(us, id) == id \in DOMAIN us /\ us[id].is_admin = True

\* db.users.find_one({"_id": id}) is not None
AdminExists(us, id) == id \in DOMAIN us

\* faulty variant: only a promotion is written
UpdateUser_OnlyPromote(us, user_id, flag, t) ==
  IF user_id \in DOMAIN us /\ flag = True
    THEN [us EXCEPT ![user_id].is_admin = flag, ![user_id].updated_at = t]
    ELSE us

\* db.users.update_one({"_id": user_id}, {"$set": {is_admin, updated_at}})
UpdateUser(us, user_id, flag, t) ==
  IF user_id \in DOMAIN us
    THEN [us EXCEPT ![user_id].is_admin = flag, ![user_id].updated_at = t]
    ELSE us

\* faulty variant: admin_id is left out of the $set
UpdateWorkspace_TimestampOnly(ws, ws_id, a, t) ==
  IF ws_id \in DOMAIN ws
    THEN [ws EXCEPT ![ws_id].updated_at = t]
    ELSE ws

\* db.workspaces.update_one({"_id": ws_id}, {"$set": {admin_id, updated_at}})
UpdateWorkspace(ws, ws_id, a, t) ==
  IF ws_id \in DOMAIN ws
    THEN [ws EXCEPT ![ws_id].admin_id = a, ![ws_id].updated_at = t]
    ELSE ws

\* ---- fix_user_admin_fields: the pure parts ----

\* faulty variant: is_admin = existing_admins <= 1
ComputeIsAdmin_OffByOne(n) == IF n <= 1 THEN True ELSE False

\* is_admin = existing_admins == 0
ComputeIsAdmin(n) == IF n = 0 THEN True ELSE False

\* faulty variant: the promotion is not remembered
NextExistingAdmins_Forget(flag, n) == n

\* if is_admin: existing_admins = 1
NextExistingAdmins(flag, n) == IF flag = True THEN 1 ELSE n

\* ---- run_migrations: the pure part ----

\* faulty variant: a failure of the first pass is swallowed
AfterFix_Swallow(o) == "ens_find"

\* the await of fix_user_admin_fields returns or raises into the except block
AfterFix(o) == IF o = "ok" THEN "ens_find" ELSE "rm_except"

\* ---- initial states ----

UserDocs(u) ==
  {[email |-> u, is_admin |-> f, updated_at |-> 0] : f \in {Absent, True, False}}

WorkspaceDocs(w) ==
  {[name |-> w, admin_id |-> a, updated_at |-> 0] :
     a \in (1..MaxUsers) \cup {DeletedUser}}

\* The code never compares two ids, so the documents are listed up to a
\* renaming of the ids: users by the shape of is_admin, workspaces by admin_id.
\* The order in which a scan returns them stays arbitrary (Orders).
FlagRank(f) == IF f = Absent THEN 0 ELSE IF f = False THEN 1 ELSE 2

NoPass == [name |-> "none", outcome |-> "none", users0 |-> <<>>, writes |-> <<>>]

Init ==
  /\ \E n \in 0..MaxUsers :
       db_users \in {f \in [1..n -> UNION {UserDocs(u) : u \in 1..n}] :
                       /\ \A u \in 1..n : f[u].email = u
                       /\ \A u \in 1..(n-1) : FlagRank(f[u].is_admin) <= FlagRank(f[u+1].is_admin)}
  /\ \E m \in 0..MaxWorkspaces :
       db_workspaces \in {f \in [1..m -> UNION {WorkspaceDocs(w) : w \in 1..m}] :
                            /\ \A w \in 1..m : f[w].name = w
                            /\ \A w \in 1..(m-1) : f[w].admin_id <= f[w+1].admin_id}
  /\ now = 1
  /\ call = "none" /\ pc = "idle" /\ result = "none"
  /\ pass = "none" /\ outcome = "none"
  /\ users0 = <<>> /\ ws0 = <<>> /\ writes = <<>>
  /\ prev = NoPass
  /\ users_without_admin = <<>> /\ existing_admins = 0 /\ is_admin = False
  /\ workspaces = <<>> /\ admin_id = DeletedUser /\ updated_count = 0
  /\ idx = 0

\* ---- entering and leaving a pass ----

StartPass(p) ==
  /\ pass' = p
  /\ outcome' = "running"
  /\ users0' = db_users
  /\ ws0' = db_workspaces
  /\ writes' = <<>>
  /\ prev' = [name |-> pass, outcome |-> outcome, users0 |-> users0,
              writes |-> writes]

ResetLocals ==
  /\ users_without_admin' = <<>> /\ existing_admins' = 0 /\ is_admin' = False
  /\ workspaces' = <<>> /\ admin_id' = DeletedUser /\ updated_count' = 0
  /\ idx' = 0

EndPass(o) ==
  /\ outcome' = o
  /\ UNCHANGED <<pass, users0, ws0, writes, prev>>
  /\ ResetLocals

\* ---- the caller ----

CallFix ==
  /\ pc = "idle"
  /\ call' = "fix_user_admin_fields"
  /\ pc' = "fix_find" /\ result' = "none"
  /\ StartPass("fix")
  /\ UNCHANGED <<dbvars, fixlocals, enslocals, idx>>

CallEnsure ==
  /\ pc = "idle"
  /\ call' = "ensure_workspace_admins"
  /\ pc' = "ens_find" /\ result' = "none"
  /\ StartPass("ensure")
  /\ UNCHANGED <<dbvars, fixlocals, enslocals, idx>>

CallRunMigrations ==
  /\ pc = "idle"
  /\ call' = "run_migrations"
  /\ pc' = "fix_find" /\ result' = "none"
  /\ StartPass("fix")
  /\ UNCHANGED <<dbvars, fixlocals, enslocals, idx>>

\* a pass called directly returns or raises to the caller
ReturnDirect ==
  /\ pc \in {"fix_done", "ens_done"}
  /\ call \in {"fix_user_admin_fields", "ensure_workspace_admins"}
  /\ pc' = "idle"
  /\ result' = IF outcome = "ok" THEN "ok" ELSE "raised"
  /\ UNCHANGED <<dbvars, call, histvars, fixlocals, enslocals, idx>>

\* ---- fix_user_admin_fields ----

FixFind ==
  /\ pc = "fix_find"
  /\ \E order \in Orders(FindUsersWithoutAdmin(db_users)) :
       IF order = <<>>
         THEN /\ pc' = "fix_done"
              /\ EndPass("ok")
         ELSE /\ pc' = "fix_count"
              /\ users_without_admin' = order
              /\ UNCHANGED <<histvars, existing_admins, is_admin, enslocals, idx>>
  /\ UNCHANGED <<dbvars, call, result>>

FixCount ==
  /\ pc = "fix_count"
  /\ existing_admins' = CountAdmins(db_users)
  /\ idx' = 1
  /\ pc' = "fix_update"
  /\ UNCHANGED <<dbvars, call, result, histvars, users_without_admin,
                 is_admin, enslocals>>

FixUpdate ==
  /\ pc = "fix_update"
  /\ LET user_id == users_without_admin[idx]
         flag == ComputeIsAdmin(existing_admins)
     IN /\ is_admin' = flag
        /\ db_users' = UpdateUser(db_users, user_id, flag, now)
        /\ writes' = Append(writes, user_id)
  /\ now' = now + 1
  /\ pc' = "fix_log"
  /\ UNCHANGED <<db_workspaces, call, result, pass, outcome, users0, ws0,
                 prev, users_without_admin, existing_admins, enslocals, idx>>

FixLog ==
  /\ pc = "fix_log"
  /\ IF idx = Len(users_without_admin)
       THEN /\ pc' = "fix_done"
            /\ EndPass("ok")
       ELSE /\ pc' = "fix_update"
            /\ existing_admins' = NextExistingAdmins(is_admin, existing_admins)
            /\ idx' = idx + 1
            /\ UNCHANGED <<histvars, users_without_admin, is_admin, enslocals>>
  /\ UNCHANGED <<dbvars, call, result>>

FixRaise ==
  /\ pc \in {"fix_find", "fix_count", "fix_update", "fix_log"}
  /\ pc' = "fix_done"
  /\ EndPass("failed")
  /\ UNCHANGED <<dbvars, call, result>>

\* ---- ensure_workspace_admins ----

EnsNextWorkspace ==
  IF idx = Len(workspaces)
    THEN /\ pc' = "ens_done"
         /\ EndPass("ok")
    ELSE /\ pc' = "ens_check"
         /\ idx' = idx + 1
         /\ UNCHANGED <<histvars, fixlocals, enslocals>>

EnsFind ==
  /\ pc = "ens_find"
  /\ \E order \in Orders(DOMAIN db_workspaces) :
       IF order = <<>>
         THEN /\ pc' = "ens_done"
              /\ EndPass("ok")
         ELSE /\ pc' = "ens_admin"
              /\ workspaces' =
                   [k \in DOMAIN order |->
                      [_id |-> order[k],
                       admin_id |-> db_workspaces[order[k]].admin_id]]
              /\ UNCHANGED <<histvars, fixlocals, admin_id, updated_count, idx>>
  /\ UNCHANGED <<dbvars, call, result>>

EnsFindAdmin ==
  /\ pc = "ens_admin"
  /\ IF FindAdmins(db_users) = {}
       THEN /\ pc' = "ens_done"
            /\ EndPass("ok")
       ELSE /\ \E global_admin \in FindAdmins(db_users) :
                 admin_id' = global_admin
            /\ updated_count' = 0
            /\ idx' = 1
            /\ pc' = "ens_check"
            /\ UNCHANGED <<histvars, fixlocals, workspaces>>
  /\ UNCHANGED <<dbvars, call, result>>

EnsCheck ==
  /\ pc = "ens_check"
  /\ IF AdminExists(db_users, workspaces[idx].admin_id)
       THEN EnsNextWorkspace
       ELSE /\ pc' = "ens_update"
            /\ UNCHANGED <<histvars, fixlocals, enslocals, idx>>
  /\ UNCHANGED <<dbvars, call, result>>

EnsUpdate ==
  /\ pc = "ens_update"
  /\ db_workspaces' =
       UpdateWorkspace(db_workspaces, workspaces[idx]._id, admin_id, now)
  /\ now' = now + 1
  /\ writes' = Append(writes, workspaces[idx]._id)
  /\ updated_count' = updated_count + 1
  /\ pc' = "ens_log"
  /\ UNCHANGED <<db_users, call, result, pass, outcome, users0, ws0,
                 prev, fixlocals, workspaces, admin_id, idx>>

EnsLog ==
  /\ pc = "ens_log"
  /\ EnsNextWorkspace
  /\ UNCHANGED <<dbvars, call, result>>

EnsRaise ==
  /\ pc \in {"ens_find", "ens_admin", "ens_check", "ens_update", "ens_log"}
  /\ pc' = "ens_done"
  /\ EndPass("failed")
  /\ UNCHANGED <<dbvars, call, result>>

\* ---- run_migrations ----

RunMigrationsAfterFix ==
  /\ call = "run_migrations" /\ pc = "fix_done"
  /\ pc' = AfterFix(outcome)
  /\ IF pc' = "ens_find"
       THEN StartPass("ensure")
       ELSE UNCHANGED histvars
  /\ UNCHANGED <<dbvars, call, result, fixlocals, enslocals, idx>>

RunMigrationsAfterEnsure ==
  /\ call = "run_migrations" /\ pc = "ens_done"
  /\ pc' = IF outcome = "ok" THEN "rm_return" ELSE "rm_except"
  /\ UNCHANGED <<dbvars, call, result, histvars, fixlocals, enslocals, idx>>

RunMigrationsReturn ==
  /\ pc = "rm_return"
  /\ pc' = "idle"
  /\ result' = "ok"
  /\ UNCHANGED <<dbvars, call, histvars, fixlocals, enslocals, idx>>

RunMigrationsExcept ==
  /\ pc = "rm_except"
  /\ pc' = "idle"
  /\ result' = "raised"
  /\ UNCHANGED <<dbvars, call, histvars, fixlocals, enslocals, idx>>

\* the program: run_migrations, run any number of times
Next ==
  \/ CallRunMigrations
  \/ FixFind \/ FixCount \/ FixUpdate \/ FixLog \/ FixRaise
  \/ EnsFind \/ EnsFindAdmin \/ EnsCheck \/ EnsUpdate \/ EnsLog \/ EnsRaise
  \/ RunMigrationsAfterFix \/ RunMigrationsAfterEnsure
  \/ RunMigrationsReturn \/ RunMigrationsExcept

Spec == Init /\ [][Next]_vars

\* migration_service.fix_user_admin_fields() called directly, any number of times
NextFix ==
  \/ CallFix
  \/ FixFind \/ FixCount \/ FixUpdate \/ FixLog \/ FixRaise
  \/ ReturnDirect

SpecFix == Init /\ [][NextFix]_vars

\* migration_service.ensure_workspace_admins() called directly, any number of times
NextEnsure ==
  \/ CallEnsure
  \/ EnsFind \/ EnsFindAdmin \/ EnsCheck \/ EnsUpdate \/ EnsLog \/ EnsRaise
  \/ ReturnDirect

SpecEnsure == Init /\ [][NextEnsure]_vars

\* ---- properties ----

Range(q) == {q[k] : k \in DOMAIN q}
Flagless(us) == {u \in DOMAIN us : us[u].is_admin = Absent}
Admins(us) == {u \in DOMAIN us : us[u].is_admin = True}
Dangling(ws, us) == {w \in DOMAIN ws : ws[w].admin_id \notin DOMAIN us}

FixReturned == pass = "fix" /\ outcome = "ok"
EnsureReturned == pass = "ensure" /\ outcome = "ok"
RunMigrationsReturned == call = "run_migrations" /\ pc = "idle" /\ result = "ok"

\* C1: when no user has is_admin = true before the pass, a complete run of
\* fix_user_admin_fields leaves exactly one of the N users that lacked the
\* field with is_admin = true (the first one the scan returned) and the other
\* N-1 with is_admin = false, whatever the scan order.
Thm_C1_ExactlyOnePromoted ==
  (FixReturned /\ Admins(users0) = {} /\ Flagless(users0) # {}) =>
    /\ Cardinality({u \in Flagless(users0) : db_users[u].is_admin = True}) = 1
    /\ \A u \in Flagless(users0) : db_users[u].is_admin \in {True, False}
    /\ db_users[writes[1]].is_admin = True

Wit_C1 ==
  /\ FixReturned /\ Admins(users0) = {}
  /\ Cardinality(Flagless(users0)) >= 3
  /\ writes[1] # 1

\* C2: when some user has is_admin = true before the pass, a complete run of
\* fix_user_admin_fields gives is_admin = false to every user that lacked the
\* field.
Thm_C2_NoPromotionWhenAdminExists ==
  (FixReturned /\ Admins(users0) # {}) =>
    \A u \in Flagless(users0) : db_users[u].is_admin = False

Wit_C2 ==
  /\ FixReturned /\ Admins(users0) # {}
  /\ Cardinality(Flagless(users0)) >= 2
  /\ Len(writes) >= 2

\* C3: a run of fix_user_admin_fields that directly follows a complete run
\* selects no users, issues no write and leaves every document as the first
\* run left it.
Thm_C3_SecondRunNoOp ==
  (pass = "fix" /\ prev.name = "fix" /\ prev.outcome = "ok") =>
    /\ pc \notin {"fix_count", "fix_update", "fix_log"}
    /\ Flagless(db_users) = {}
    /\ writes = <<>>
    /\ db_users = users0
    /\ db_workspaces = ws0
    /\ outcome # "failed" => users_without_admin = <<>>

Wit_C3 ==
  /\ FixReturned /\ prev.name = "fix" /\ prev.outcome = "ok"
  /\ Len(prev.writes) >= 2

\* C4: when some user has is_admin = true, a complete run of
\* ensure_workspace_admins gives every workspace whose admin_id resolved to no
\* user the id of one and the same administrator, which is an existing user.
Thm_C4_DanglingRepaired ==
  (EnsureReturned /\ Admins(users0) # {}) =>
    \E a \in Admins(db_users) :
      /\ a \in Admins(users0)
      /\ \A w \in Dangling(ws0, users0) : db_workspaces[w].admin_id = a
      /\ Range(writes) = Dangling(ws0, users0)

Wit_C4 ==
  /\ EnsureReturned
  /\ Cardinality(Admins(users0)) >= 2
  /\ Cardinality(Dangling(ws0, users0)) >= 2
  /\ \E w \in Dangling(ws0, users0) : ws0[w].admin_id # DeletedUser

\* C5: ensure_workspace_admins issues no write for a workspace whose admin_id
\* resolves to an existing user; its admin_id and updated_at keep their values.
Thm_C5_ResolvedUntouched ==
  pass = "ensure" =>
    \A w \in DOMAIN ws0 :
      ws0[w].admin_id \in DOMAIN users0 =>
        /\ w \notin Range(writes)
        /\ w \in DOMAIN db_workspaces
        /\ db_workspaces[w] = ws0[w]

Wit_C5 ==
  /\ EnsureReturned
  /\ writes # <<>>
  /\ \E w \in DOMAIN ws0 :
       /\ ws0[w].admin_id \in DOMAIN users0
       /\ users0[ws0[w].admin_id].is_admin # True

\* C6 as stated: after run_migrations returns, every workspace's admin_id is
\* the id of an existing user.
Orig_C6_AllWorkspacesResolve ==
  RunMigrationsReturned =>
    \A w \in DOMAIN db_workspaces : db_workspaces[w].admin_id \in DOMAIN db_users

\* C6 amended: after run_migrations returns, if some user has is_admin = true
\* then every workspace's admin_id is the id of an existing user.
Thm_C6_ResolveWhenAdminExists ==
  (RunMigrationsReturned /\ Admins(db_users) # {}) =>
    \A w \in DOMAIN db_workspaces : db_workspaces[w].admin_id \in DOMAIN db_users

Wit_C6 ==
  /\ RunMigrationsReturned
  /\ pass = "ensure" /\ writes # <<>>
  /\ prev.writes # <<>>

\* C7: after run_migrations returns, every user document has the is_admin
\* field, true or false.
Thm_C7_AllUsersFlagged ==
  RunMigrationsReturned =>
    \A u \in DOMAIN db_users : db_users[u].is_admin \in {True, False}

Wit_C7 ==
  /\ RunMigrationsReturned
  /\ pass = "ensure"
  /\ Len(prev.writes) >= 2
  /\ Admins(prev.users0) # {}

\* C8: in run_migrations the second pass starts only after the first has
\* returned; a failure of either pass reaches the caller; the writes of a
\* first pass that returned are all in place when the second pass fails; and
\* when the first pass fails the second is never started.
Thm_C8_SequenceAndPropagation ==
  call = "run_migrations" =>
    /\ pass \in {"fix", "ensure"}
    /\ pass = "ensure" =>
         /\ prev.name = "fix" /\ prev.outcome = "ok"
         /\ db_users = users0
         /\ \A u \in Range(prev.writes) : db_users[u].is_admin \in {True, False}
    /\ (pass = "fix" /\ outcome = "failed") => pc \in {"fix_done", "rm_except", "idle"}
    /\ pc = "idle" =>
         /\ outcome \in {"ok", "failed"}
         /\ result = (IF outcome = "ok" THEN "ok" ELSE "raised")
         /\ result = "ok" => pass = "ensure"
    /\ pc = "rm_except" => outcome = "failed"
    /\ pc = "rm_return" => outcome = "ok" /\ pass = "ensure"

Wit_C8 ==
  /\ call = "run_migrations" /\ pc = "idle" /\ result = "raised"
  /\ pass = "ensure" /\ outcome = "failed"
  /\ Len(prev.writes) >= 2
  /\ writes # <<>>

\* C9: when fix_user_admin_fields fails after some of its writes and is then
\* run again to completion, every user has the is_admin field, no user written
\* by the failed run is written again, and of the users that lacked the field
\* before the failed run exactly one has is_admin = true when no administrator
\* existed then, and none when one did.
Thm_C9_RerunConverges ==
  (FixReturned /\ prev.name = "fix" /\ prev.outcome = "failed") =>
    /\ \A u \in DOMAIN db_users : db_users[u].is_admin \in {True, False}
    /\ \A u \in Range(prev.writes) :
         u \notin Range(writes) /\ db_users[u] = users0[u]
    /\ Range(prev.writes) \cup Range(writes) = Flagless(prev.users0)
    /\ Len(prev.writes) + Len(writes) = Cardinality(Flagless(prev.users0))
    /\ Cardinality({u \in Flagless(prev.users0) : db_users[u].is_admin = True})
         = (IF Admins(prev.users0) = {} /\ Flagless(prev.users0) # {} THEN 1 ELSE 0)

Wit_C9 ==
  /\ FixReturned /\ prev.name = "fix" /\ prev.outcome = "failed"
  /\ Admins(prev.users0) = {}
  /\ prev.writes # <<>>
  /\ Len(writes) >= 2

\* C10: no step creates or deletes a user or a workspace document; a user
\* that has the is_admin field is never written; and a write changes only
\* is_admin and updated_at of a user, admin_id and updated_at of a workspace.
Thm_C10_Frame ==
  [][ /\ DOMAIN db_users' = DOMAIN db_users
      /\ DOMAIN db_workspaces' = DOMAIN db_workspaces
      /\ \A u \in DOMAIN db_users :
           /\ db_users'[u].email = db_users[u].email
           /\ db_users[u].is_admin # Absent => db_users'[u] = db_users[u]
      /\ \A w \in DOMAIN db_workspaces :
           db_workspaces'[w].name = db_workspaces[w].name ]_vars

Wit_C10 ==
  /\ RunMigrationsReturned
  /\ pass = "ensure" /\ writes # <<>>
  /\ prev.writes # <<>>
  /\ \E u \in DOMAIN prev.users0 : prev.users0[u].is_admin = False

====
